---- MODULE Spec2Model ----
(***************************************************************************)
(* Fault-plane planner and point-source field generator of                 *)
(* src/src/wasp/fault_plane.py.                                            *)
(*                                                                         *)
(* Numbers.  A Python int is a TLA+ integer.  A Python float is an exact   *)
(* rational <<n, d>> in lowest terms with d > 0 (real arithmetic: the      *)
(* rounding of IEEE doubles is not modelled).  np.sqrt only ever feeds a   *)
(* comparison or a truncated quotient in the code, so it is modelled by    *)
(* the squared comparison.  np.sin / np.cos are evaluated on the angles of *)
(* AngleTable only, whose sines and cosines are rational.                  *)
(***************************************************************************)
EXTENDS Integers, Sequences, FiniteSets, TLC

----------------------------------------------------------------------------
(* Rational arithmetic (Python float operators +, -, *, /, <, max, min).   *)

Abs(i) == IF i < 0 THEN -i ELSE i

RECURSIVE Gcd(_, _)
Gcd(a, b) == IF b = 0 THEN a ELSE Gcd(b, a % b)

Q(n, d) ==
    LET g == Gcd(Abs(n), Abs(d))
        s == IF d < 0 THEN -1 ELSE 1
    IN  <<(s * n) \div g, (s * d) \div g>>

QI(i) == <<i, 1>>

\* over the least common denominator
QAdd(a, b) ==
    LET g == Gcd(a[2], b[2])
    IN  Q(a[1] * (b[2] \div g) + b[1] * (a[2] \div g), (a[2] \div g) * b[2])
QSub(a, b) == QAdd(a, <<-b[1], b[2]>>)
QMul(a, b) ==
    LET g1 == Gcd(Abs(a[1]), b[2])
        g2 == Gcd(Abs(b[1]), a[2])
    IN  IF a[1] = 0 \/ b[1] = 0 THEN <<0, 1>>
        ELSE <<(a[1] \div g1) * (b[1] \div g2), (a[2] \div g2) * (b[2] \div g1)>>
QDiv(a, b) == IF b[1] < 0 THEN QMul(a, <<-b[2], -b[1]>>) ELSE QMul(a, <<b[2], b[1]>>)
\* floor, as produced by the float operator //
QFloor(a) == a[1] \div a[2]
\* comparison on the integer parts first, then on the fractional parts
QLt(a, b) ==
    IF QFloor(a) # QFloor(b) THEN QFloor(a) < QFloor(b)
    ELSE (a[1] % a[2]) * b[2] < (b[1] % b[2]) * a[2]
QLe(a, b) == ~QLt(b, a)
QMax(a, b) == IF QLt(a, b) THEN b ELSE a
QMin(a, b) == IF QLt(b, a) THEN b ELSE a
\* int(x): truncation toward zero
QTrunc(a) == IF a[1] >= 0 THEN a[1] \div a[2] ELSE -((-a[1]) \div a[2])

----------------------------------------------------------------------------
(* Angles in degrees with rational sine and cosine.                        *)

AngleTable ==
    <<[deg |-> <<90, 1>>,      sin |-> <<1, 1>>,   cos |-> <<0, 1>>],
      [deg |-> <<3687, 100>>,  sin |-> <<3, 5>>,   cos |-> <<4, 5>>],
      [deg |-> <<1626, 100>>,  sin |-> <<7, 25>>,  cos |-> <<24, 25>>],
      [deg |-> <<5313, 100>>,  sin |-> <<4, 5>>,   cos |-> <<3, 5>>],
      [deg |-> <<0, 1>>,       sin |-> <<0, 1>>,   cos |-> <<1, 1>>],
      [deg |-> <<34374, 100>>, sin |-> <<-7, 25>>, cos |-> <<24, 25>>],
      [deg |-> <<12687, 100>>, sin |-> <<4, 5>>,   cos |-> <<-3, 5>>],
      [deg |-> <<-1626, 100>>, sin |-> <<-7, 25>>, cos |-> <<24, 25>>]>>

AngleRow(a) == CHOOSE i \in 1..Len(AngleTable) : AngleTable[i].deg = a
SinDeg(a) == AngleTable[AngleRow(a)].sin
CosDeg(a) == AngleTable[AngleRow(a)].cos

----------------------------------------------------------------------------
(* tensor_info is a record with time_shift, depth, lat, lon, centroid_lat, *)
(* centroid_lon (floats), moment_cbrt (the cube root of moment_mag in      *)
(* units of 10^8, so that moment_mag ** (1 / 3) is rational) and           *)
(* date_origin (year, month, julday, hour).                                *)

\* variant of default_vel_of_eq: the slow-earthquake test made first, the depth
\* tests after it
default_vel_depth_last(tensor_info) ==
    LET time_shift == tensor_info.time_shift
        depth == tensor_info.depth
        half_duration == QMul(<<6, 5>>, tensor_info.moment_cbrt)
        v0 == IF QLt(QI(3), QDiv(time_shift, half_duration)) THEN <<3, 2>> ELSE <<5, 2>>
        v1 == IF QLt(QI(100), depth) THEN <<3, 1>> ELSE v0
    IN  IF QLt(QI(300), depth) THEN <<18, 5>> ELSE v1

\* __default_vel_of_eq
default_vel_of_eq(tensor_info) ==
    LET time_shift == tensor_info.time_shift
        depth == tensor_info.depth
        v0 == <<5, 2>>
        v1 == IF QLt(QI(100), depth) THEN <<3, 1>> ELSE v0
        v2 == IF QLt(QI(300), depth) THEN <<18, 5>> ELSE v1
        half_duration == QMul(<<6, 5>>, tensor_info.moment_cbrt)
    IN  IF QLt(QI(3), QDiv(time_shift, half_duration)) THEN <<3, 2>> ELSE v2

\* __plane_tensor_def
plane_tensor_def(strike, dip, rake, rupture_vel) ==
    [strike |-> strike, dip |-> dip, rake |-> rake, rupture_vel |-> rupture_vel]

\* __subfaults_properties
subfaults_properties(delta_strike, delta_dip, stk_subfaults, dip_subfaults) ==
    [delay_segment |-> 0, delta_strike |-> delta_strike, delta_dip |-> delta_dip,
     stk_subfaults |-> stk_subfaults, dip_subfaults |-> dip_subfaults]

\* max(depth - water_level, 0.8 * depth) / np.sin(dip * np.pi / 180.0)
dist_to_surface(depth, water_level, dip) ==
    QDiv(QMax(QSub(depth, water_level), QMul(<<4, 5>>, depth)), SinDeg(dip))

\* n * max(size0, 1.0) <= x, where size0 = np.sqrt(width_length / 225.0),
\* for n >= 0 and x >= 0: decided on the squares
FitsSize0(n, x, max_width, max_length) ==
    IF QLt(QMul(max_width, max_length), QI(225))
    THEN QLe(QI(n), x)
    ELSE \/ n = 0
         \/ QLe(QDiv(QMul(max_width, max_length), QI(225)),
                QDiv(QMul(x, x), QI(n * n)))

\* min(int(x / max(size0, 1.0)), cap)
CappedQuotient(x, max_width, max_length, cap) ==
    LET fit == {n \in 0..cap : FitsSize0(n, x, max_width, max_length)}
    IN  CHOOSE n \in fit : \A k \in fit : k <= n

\* variant of StkCap: an even cap
StkCapEven == 2 * 23

StkCap == 45
DipCap == 15
DipFloor == 3

\* __fault_plane_properties
fault_plane_properties(eq_time, tensor_info, plane_info, water_level) ==
    LET dip == plane_info.dip
        default_vel == plane_info.rupture_vel
        depth == tensor_info.depth
        dist_hypo_surface == dist_to_surface(depth, water_level, dip)
        max_length == QMul(default_vel, eq_time)
        width0 == QMin(QMin(QI(300), max_length), QMul(QI(2), dist_hypo_surface))
        max_width == QMax(width0, QI(30))
        stk0 == CappedQuotient(max_length, max_width, max_length, StkCap)
        stk_subfaults == IF stk0 % 2 = 0 THEN stk0 + 1 ELSE stk0
        max_length2 == QMul(<<6, 5>>, max_length)
        delta_strike == QDiv(max_length2, QI(stk_subfaults))
        dip0 == CappedQuotient(max_width, max_width, max_length, DipCap)
        dip1 == IF dip0 < DipFloor THEN DipFloor ELSE dip0
        dip_subfaults == IF dip1 % 2 = 0 THEN dip1 + 1 ELSE dip1
        delta_dip ==
            IF ~FitsSize0(1, dist_hypo_surface, max_width, max_length)
            THEN QMax(QDiv(max_width, QI(dip_subfaults)),
                      QMul(<<19, 10>>, dist_hypo_surface))
            ELSE QDiv(QMul(<<99, 100>>, max_width), QI(dip_subfaults))
    IN  subfaults_properties(delta_strike, delta_dip, stk_subfaults, dip_subfaults)

\* variant of WindowsFor: the factor 1.5 dropped
WindowsForNoFactor(m, divisor) == QTrunc(QDiv(m, divisor))

\* int(1.5 * max(delta_strike, delta_dip) / divisor)
WindowsFor(m, divisor) == QTrunc(QDiv(QMul(<<3, 2>>, m), divisor))

WindowsPad == 2

\* variant of rise_time_parameters: the override for depth > 200 left out
rise_time_no_depth_override(tensor_info, fault_dimensions, data_type) ==
    LET m == QMax(fault_dimensions.delta_strike, fault_dimensions.delta_dip)
        ts == tensor_info.time_shift
        b == IF QLe(ts, QI(10)) THEN [w |-> WindowsFor(m, QI(2)), r |-> <<1, 1>>]
             ELSE IF QLe(ts, QI(24)) THEN [w |-> WindowsFor(m, QI(4)), r |-> <<2, 1>>]
             ELSE IF QLe(QI(48), ts) THEN [w |-> WindowsFor(m, QI(8)), r |-> <<4, 1>>]
             ELSE [w |-> QTrunc(QDiv(QMul(QMul(<<3, 2>>, m), QI(6)), ts)),
                   r |-> QDiv(ts, QI(12))]
        t == IF "tele_body" \in data_type
             THEN [w |-> IF WindowsFor(m, QI(3)) > b.w THEN WindowsFor(m, QI(3)) ELSE b.w,
                   r |-> QMin(<<3, 2>>, b.r)]
             ELSE b
    IN  [min_rise |-> t.r, delta_rise |-> t.r, windows |-> t.w + WindowsPad]

\* __rise_time_parameters; data_type is the set of the list's entries
rise_time_parameters(tensor_info, fault_dimensions, data_type) ==
    LET m == QMax(fault_dimensions.delta_strike, fault_dimensions.delta_dip)
        ts == tensor_info.time_shift
        b == IF QLe(ts, QI(10)) THEN [w |-> WindowsFor(m, QI(2)), r |-> <<1, 1>>]
             ELSE IF QLe(ts, QI(24)) THEN [w |-> WindowsFor(m, QI(4)), r |-> <<2, 1>>]
             ELSE IF QLe(QI(48), ts) THEN [w |-> WindowsFor(m, QI(8)), r |-> <<4, 1>>]
             ELSE [w |-> QTrunc(QDiv(QMul(QMul(<<3, 2>>, m), QI(6)), ts)),
                   r |-> QDiv(ts, QI(12))]
        t == IF "tele_body" \in data_type
             THEN [w |-> IF WindowsFor(m, QI(3)) > b.w THEN WindowsFor(m, QI(3)) ELSE b.w,
                   r |-> QMin(<<3, 2>>, b.r)]
             ELSE b
        d == IF QLt(QI(200), tensor_info.depth)
             THEN [w |-> WindowsFor(m, QI(2)), r |-> <<1, 1>>]
             ELSE t
    IN  [min_rise |-> d.r, delta_rise |-> d.r, windows |-> d.w + WindowsPad]

\* __point_sources_general
point_sources_general(strike_ps, dip_ps, dx, dy) ==
    [strike_ps |-> strike_ps, dip_ps |-> dip_ps, dx |-> dx, dy |-> dy]

\* variant of DipPsCap: an even cap one above the source's
DipPsCapEven == 2 * 9

DipPsCap == 17

\* _point_sources_def
point_sources_def(rise_time_param, rupture_vel, fault_dimensions) ==
    LET delta_strike == fault_dimensions.delta_strike
        delta_dip == fault_dimensions.delta_dip
        delta == QMul(rise_time_param.delta_rise, rupture_vel)
        s0 == QTrunc(QDiv(delta_strike, delta)) + 1
        d00 == QTrunc(QDiv(delta_dip, delta)) + 1
        d0 == IF d00 < DipPsCap THEN d00 ELSE DipPsCap
        strike_ps == IF s0 % 2 = 0 THEN s0 + 1 ELSE s0
        dip_ps == IF d0 % 2 = 0 THEN d0 + 1 ELSE d0
    IN  point_sources_general(strike_ps, dip_ps,
                              QDiv(delta_strike, QI(strike_ps)),
                              QDiv(delta_dip, QI(dip_ps)))

\* __epicenter_location
epicenter_location(hyp_stk, hyp_dip) == [hyp_stk |-> hyp_stk, hyp_dip |-> hyp_dip]

\* the value of j after
\*   for j in range(hyp_dip): if delta_dip * (j + 0.5) > 1.01 * surface_dist: break
ScanHypDip(delta_dip, surface_dist, hyp_dip) ==
    LET hit == {j \in 0..(hyp_dip - 1) :
                   QLt(QMul(<<101, 100>>, surface_dist),
                       QMul(delta_dip, QAdd(QI(j), <<1, 2>>)))}
    IN  IF hit = {} THEN hyp_dip - 1
        ELSE CHOOSE j \in hit : \A k \in hit : j <= k

\* x of np.dot(np.linalg.inv(matrix), vector): the first row of the inverse is
\* degree * [cos_stk, sin_stk * cos(lat)], cos_dip cancels against the determinant
AlongStrikeOffset(strike, tensor_info) ==
    LET dlat == QSub(tensor_info.centroid_lat, tensor_info.lat)
        dlon == QSub(tensor_info.centroid_lon, tensor_info.lon)
    IN  QMul(<<11119, 100>>,
             QAdd(QMul(CosDeg(strike), dlat),
                  QMul(QMul(SinDeg(strike), CosDeg(tensor_info.lat)), dlon)))

\* __hypocenter_location2
hypocenter_location2(plane_info, fault_dimensions, tensor_info, water_level, rise_time) ==
    LET stk_subfaults == fault_dimensions.stk_subfaults
        dip_subfaults == fault_dimensions.dip_subfaults
        delta_strike == fault_dimensions.delta_strike
        delta_dip == fault_dimensions.delta_dip
        x == AlongStrikeOffset(plane_info.strike, tensor_info)
        stk0 == QFloor(QDiv(QSub(QI(0), x), delta_strike)) + (stk_subfaults \div 2) + 1
        stk1 == IF stk_subfaults < stk0 THEN stk_subfaults ELSE stk0
        stk2 == IF stk1 < 1 THEN 1 ELSE stk1
        surface_dist == dist_to_surface(tensor_info.depth, water_level, plane_info.dip)
        dip0 == (dip_subfaults \div 2) + 1
        dip1 == IF QLt(surface_dist, QDiv(QMul(delta_dip, QI(dip_subfaults)), QI(2)))
                THEN ScanHypDip(delta_dip, surface_dist, dip0)
                ELSE dip0
        hyp_stk == IF stk_subfaults > 1 THEN stk2 ELSE 1
        hyp_dip == IF dip_subfaults > 1 THEN dip1 ELSE 1
    IN  epicenter_location(hyp_stk, hyp_dip)

----------------------------------------------------------------------------
(* The two output formats.  A text token of Event_mult.in is a record:     *)
(* "{}".format of an int prints digits only (k = "int"), of a float prints *)
(* its repr (k = "float"), which float() reads back to the same value.     *)

FmtInt(i) == [k |-> "int", v |-> i]
\* variant of FmtFloat: two decimals, as "{:.2f}" would print
FmtFloatTwoDecimals(q) == [k |-> "float", v |-> Q(QTrunc(QMul(q, QI(100))), 100)]

FmtFloat(q) == [k |-> "float", v |-> q]
\* float(token)
PyFloat(tok) == IF tok.k = "int" THEN QI(tok.v) ELSE tok.v
\* int(token) raises ValueError unless the token is an integer literal
PyIntOk(tok) == tok.k = "int"
PyInt(tok) == tok.v

\* __save_plane_data: the dictionary dumped to segments_data.json and returned
save_plane_data(plane_tensor, sub, epicenter_loc, rise) ==
    LET segment_info ==
            [neighbours |-> <<>>,
             strike |-> plane_tensor.strike, dip |-> plane_tensor.dip,
             rake |-> plane_tensor.rake, rupture_vel |-> plane_tensor.rupture_vel,
             delay_segment |-> sub.delay_segment,
             delta_strike |-> sub.delta_strike, delta_dip |-> sub.delta_dip,
             stk_subfaults |-> sub.stk_subfaults, dip_subfaults |-> sub.dip_subfaults,
             hyp_stk |-> epicenter_loc.hyp_stk, hyp_dip |-> epicenter_loc.hyp_dip]
    IN  [segments |-> <<segment_info>>, rise_time |-> rise]

\* __write_event_mult_in: the lines of Event_mult.in
write_event_mult_in(tensor_info, plane_tensor, sub, epicenter_loc, rise) ==
    LET year == FmtInt(tensor_info.date_origin.year)
        month == FmtInt(tensor_info.date_origin.month)
        day == FmtInt(tensor_info.date_origin.julday)
        hour == FmtInt(tensor_info.date_origin.hour)
        strike == FmtFloat(plane_tensor.strike)
        dip == FmtFloat(plane_tensor.dip)
        rake == FmtFloat(plane_tensor.rake)
        \* float(moment_mag) * 10**-7, in units of 10^17
        c == tensor_info.moment_cbrt
        moment_mag == FmtFloat(QMul(c, QMul(c, c)))
    IN  << <<year, month, day, hour>>,
           <<strike, dip, rake, moment_mag>>,
           <<FmtFloat(tensor_info.lat), FmtFloat(tensor_info.lon), year, month, day, hour>>,
           <<FmtFloat(<<1, 5>>), FmtInt(10), FmtInt(0)>>,
           <<FmtFloat(rise.min_rise), FmtFloat(rise.delta_rise), FmtInt(rise.windows)>>,
           <<FmtFloat(plane_tensor.rupture_vel)>>,
           <<FmtInt(1), FmtFloat(sub.delta_strike), FmtFloat(sub.delta_dip)>>,
           <<FmtInt(1)>>,
           <<dip, strike, rake, FmtInt(1)>>,
           <<FmtInt(sub.stk_subfaults), FmtInt(sub.dip_subfaults), FmtInt(0)>>,
           <<FmtInt(epicenter_loc.hyp_stk), FmtInt(epicenter_loc.hyp_dip), FmtInt(1),
             FmtFloat(tensor_info.depth)>> >>

\* lines[i][j] of the parser, 0-indexed as in the source
Tok(lines, i, j) == lines[i + 1][j + 1]

\* the segment loop of event_mult_in_to_json
RECURSIVE ParseSegments(_, _, _, _, _, _, _)
ParseSegments(lines, i_segment, n_segments, index0, rupt_vel, delta_strike, delta_dip) ==
    IF i_segment >= n_segments THEN <<>>
    ELSE
        LET dict1 ==
                [delay_segment |-> PyFloat(Tok(lines, index0 + 2, 2)),
                 delta_strike |-> delta_strike,
                 delta_dip |-> delta_dip,
                 dip |-> PyFloat(Tok(lines, index0 + 1, 0)),
                 strike |-> PyFloat(Tok(lines, index0 + 1, 1)),
                 rake |-> PyFloat(Tok(lines, index0 + 1, 2)),
                 rupture_vel |-> rupt_vel,
                 stk_subfaults |-> PyInt(Tok(lines, index0 + 2, 0)),
                 dip_subfaults |-> PyInt(Tok(lines, index0 + 2, 1)),
                 hyp_stk |-> PyInt(Tok(lines, index0 + 3, 0)),
                 hyp_dip |-> PyInt(Tok(lines, index0 + 3, 1)),
                 neighbours |-> <<>>]
            dict2 ==
                [connect_subfault |-> <<PyInt(Tok(lines, index0 + 5, 0)),
                                        PyInt(Tok(lines, index0 + 5, 1))>>,
                 neighbour |-> PyInt(Tok(lines, index0 + 4, 0)) - 1,
                 neighbour_connect_subfault |-> <<PyInt(Tok(lines, index0 + 4, 2)),
                                                  PyInt(Tok(lines, index0 + 4, 3))>>]
        IN  IF i_segment = 0
            THEN <<dict1>> \o ParseSegments(lines, i_segment + 1, n_segments, index0 + 4,
                                            rupt_vel, delta_strike, delta_dip)
            ELSE <<[dict1 EXCEPT !.neighbours = <<dict2>>]>>
                 \o ParseSegments(lines, i_segment + 1, n_segments, index0 + 6,
                                  rupt_vel, delta_strike, delta_dip)

\* the tokens event_mult_in_to_json hands to int() for a one-segment file
IntTokens(lines) ==
    {Tok(lines, 4, 2), Tok(lines, 6, 0), Tok(lines, 9, 0), Tok(lines, 9, 1),
     Tok(lines, 10, 0), Tok(lines, 10, 1)}

\* event_mult_in_to_json: the dictionary dumped to segments_data.json
event_mult_in_to_json(lines) ==
    LET rise == [min_rise |-> PyFloat(Tok(lines, 4, 0)),
                 delta_rise |-> PyFloat(Tok(lines, 4, 1)),
                 windows |-> PyInt(Tok(lines, 4, 2))]
        rupt_vel == PyFloat(Tok(lines, 5, 0))
        delta_strike == PyFloat(Tok(lines, 6, 1))
        delta_dip == PyFloat(Tok(lines, 6, 2))
        n_segments == PyInt(Tok(lines, 6, 0))
    IN  [rise_time |-> rise,
         segments |-> ParseSegments(lines, 0, n_segments, 7, rupt_vel,
                                    delta_strike, delta_dip)]

----------------------------------------------------------------------------
(* Geographic coordinates of the field generator.  A latitude is           *)
(* [base, north]: base degrees plus north km / 111.12.  A longitude is     *)
(* [base, east]: base degrees plus, for every <<lat, e>> in east,          *)
(* e km / 111.12 / cos(lat * deg2rad).  Both are exact; the irrational     *)
(* cosine of a derived latitude stays symbolic.                            *)

GeoLat(deg) == [base |-> deg, north |-> <<0, 1>>]
GeoLon(deg) == [base |-> deg, east |-> {}]

\* lon + e / degree / np.cos(lat0 * deg2rad)
AddEast(lon, lat0, e) ==
    LET same == {t \in lon.east : t[1] = lat0}
        rest == lon.east \ same
        old == IF same = {} THEN <<0, 1>> ELSE (CHOOSE t \in same : TRUE)[2]
        sum == QAdd(old, e)
    IN  [lon EXCEPT !.east = IF sum[1] = 0 THEN rest ELSE rest \cup {<<lat0, sum>>}]

\* __lat_lon
lat_lon(strike, dip, x, y, lat0, lon0) ==
    LET cos_stk == CosDeg(strike)
        sin_stk == SinDeg(strike)
        cos_dip == CosDeg(dip)
        north == QSub(QMul(x, cos_stk), QMul(QMul(y, cos_dip), sin_stk))
        east == QAdd(QMul(x, sin_stk), QMul(QMul(y, cos_dip), cos_stk))
    IN  <<[lat0 EXCEPT !.north = QAdd(@, north)], AddEast(lon0, lat0, east)>>

\* mng._distazbaz(lat, lon, hypo_lat, hypo_lon): external geodesy, kept opaque
distazbaz(lat, lon, hypo_lat, hypo_lon) ==
    [dist |-> <<"dist", lat, lon, hypo_lat, hypo_lon>>,
     az |-> <<"az", lat, lon, hypo_lat, hypo_lon>>]

\* variant of CentralPs: int(n_ps / 2.0)
CentralPsFloor(n_ps) == n_ps \div 2

\* int(n_ps / 2.0 + 0.51)
CentralPs(n_ps) == QTrunc(QAdd(QDiv(QI(n_ps), QI(2)), <<51, 100>>))

\* hyp * delta + n * d: the reference offsets of lines 146-147, 156-157, 203-204
RefOffset(hyp, delta, n, d) == QAdd(QMul(QI(hyp), delta), QMul(QI(n), d))

\* (j2 + 1) * delta_strike + (j1 + 1) * dx - ref  (lines 213-214, 220-221)
CellOffset(sub, delta, ps_i, d, ref) ==
    QSub(QAdd(QMul(QI(sub + 1), delta), QMul(QI(ps_i + 1), d)), ref)

\* y * np.sin(dip * deg2rad) + depth0  (lines 176, 222)
DepthAt(y, dip, depth0) == QAdd(QMul(y, SinDeg(dip)), depth0)

\* variant of DepthFloor: the ground surface itself
DepthFloorZero == <<0, 1>>

\* the floor of line 223
DepthFloor == <<1, 10>>
AboveGround(dep) == QLt(dep, DepthFloor)

\* the cells of one segment's array, (k2, j2, k1, j1), in loop order
CellAt(n, segment, grid) ==
    LET j1 == n % grid.strike_ps
        k1 == (n \div grid.strike_ps) % grid.dip_ps
        j2 == (n \div (grid.strike_ps * grid.dip_ps)) % segment.stk_subfaults
        k2 == n \div (grid.strike_ps * grid.dip_ps * segment.stk_subfaults)
    IN  <<k2, j2, k1, j1>>
CellCount(segment, grid) ==
    segment.dip_subfaults * segment.stk_subfaults * grid.dip_ps * grid.strike_ps
Cells(segment, grid) ==
    (0..(segment.dip_subfaults - 1)) \X (0..(segment.stk_subfaults - 1))
        \X (0..(grid.dip_ps - 1)) \X (0..(grid.strike_ps - 1))

\* np.zeros((dip_subfaults, stk_subfaults, dip_ps, strike_ps, 7))
ZeroEntry == [lat |-> GeoLat(<<0, 1>>), lon |-> GeoLon(<<0, 1>>), depth |-> <<0, 1>>,
              distance_sq |-> <<0, 1>>, time_sq |-> <<0, 1>>, dist |-> <<>>, az |-> <<>>]
Zeros(segment, grid) == [c \in Cells(segment, grid) |-> ZeroEntry]

\* the frame of a segment anchored at a hypocenter (lines 146-148, 156-161)
HypocenterFrame(lat, lon, depth, segment, delta_strike, delta_dip, grid) ==
    [lat |-> lat, lon |-> lon, depth |-> depth,
     x_ref |-> RefOffset(segment.hyp_stk, delta_strike, CentralPs(grid.strike_ps), grid.dx),
     y_ref |-> RefOffset(segment.hyp_dip, delta_dip, CentralPs(grid.dip_ps), grid.dy)]

\* the frame a connection gives to segment2 (lines 169-182)
ConnectionFrame(connection, frame1, first_segment, delta_strike, delta_dip) ==
    LET n1_stk == connection.segment1_subfault[1]
        n1_dip == connection.segment1_subfault[2]
        n2_stk == connection.segment2_subfault[1]
        n2_dip == connection.segment2_subfault[2]
        x == QSub(QMul(QI(n1_stk), delta_strike), frame1.x_ref)
        y == QSub(QMul(QI(n1_dip), delta_dip), frame1.y_ref)
        dep_ref == DepthAt(y, first_segment.dip, frame1.depth)
        ll == lat_lon(first_segment.strike, first_segment.dip, x, y,
                      frame1.lat, frame1.lon)
    IN  [lat |-> ll[1], lon |-> ll[2], depth |-> dep_ref,
         x_ref |-> QMul(QI(n2_stk), delta_strike),
         y_ref |-> QMul(QI(n2_dip), delta_dip)]

\* depth of the point source of cell c in the frame ref (lines 221-222)
CellDepth(c, segment, ref, delta_dip, grid) ==
    DepthAt(CellOffset(c[1], delta_dip, c[3], grid.dy, ref.y_ref), segment.dip, ref.depth)

\* the 7 values stored for cell c (lines 213-238); distance and t1 by their squares
CellEntry(c, segment, ref, hypocenter, delta_strike, delta_dip, rupt_vel, grid) ==
    LET x_center == RefOffset(segment.hyp_stk, delta_strike,
                              CentralPs(grid.strike_ps), grid.dx)
        y_center == RefOffset(segment.hyp_dip, delta_dip,
                              CentralPs(grid.dip_ps), grid.dy)
        xc == CellOffset(c[2], delta_strike, c[4], grid.dx, x_center)
        yc == CellOffset(c[1], delta_dip, c[3], grid.dy, y_center)
        distance_sq == QAdd(QMul(xc, xc), QMul(yc, yc))
        x == CellOffset(c[2], delta_strike, c[4], grid.dx, ref.x_ref)
        y == CellOffset(c[1], delta_dip, c[3], grid.dy, ref.y_ref)
        ll == lat_lon(segment.strike, segment.dip, x, y, ref.lat, ref.lon)
        geo == distazbaz(ll[1], ll[2], hypocenter.lat, hypocenter.lon)
    IN  [lat |-> ll[1], lon |-> ll[2],
         depth |-> DepthAt(y, segment.dip, ref.depth),
         distance_sq |-> distance_sq,
         time_sq |-> QDiv(distance_sq, QMul(rupt_vel, rupt_vel)),
         dist |-> geo.dist, az |-> geo.az]

----------------------------------------------------------------------------
(* State: create_finite_fault followed by the optional conversion of the   *)
(* text record (event_mult_in_to_json), and one call of                    *)
(* point_sources_param.                                                    *)

VARIABLES
    args,           \* arguments of create_finite_fault
    pc,             \* position in create_finite_fault / the converter
    rupture_vel,    \* local rupture_vel after line 67
    subfaults,      \* result of __fault_plane_properties
    rise_time,      \* result of __rise_time_parameters
    hyp_location,   \* result of __hypocenter_location2
    event_mult_in,  \* lines of the file Event_mult.in, <<>> while absent
    segments_json,  \* <<document>> of the file segments_data.json, <<>> while absent
    segments_data,  \* <<document>> returned by create_finite_fault, <<>> before
    call,           \* arguments of point_sources_param
    fpc,            \* position in point_sources_param
    grid,           \* subfaults2: strike_ps, dip_ps, dx, dy
    ref_coords,     \* per segment <<>> (the placeholder []) or <<frame>>
    hypocenters,    \* per segment <<>> or <<[lat, lon, depth]>>
    point_sources,  \* per segment <<>> or <<array>>
    matrix,         \* the array of the segment being filled
    idx,            \* 1-based loop index (segment or connection)
    cell_n,         \* number of cells of the current segment already visited
    field,          \* <<list>> returned by point_sources_param, <<>> before
    writes,         \* history: per segment, how often each cell was assigned
    frame_log,      \* history: the partner frame each connection read
    shear_call,     \* arguments of shear_modulous
    spc,            \* position in shear_modulous
    velmodel,       \* the velocity model in use after line 354
    shear,          \* per segment <<>> (the placeholder []) or <<matrix>>
    niu_matrix,     \* the matrix of the segment being filled
    shear_seg,      \* 1-based index of the segment being filled
    shear_sub,      \* number of sub-faults of that segment already visited
    shear_out,      \* <<list>> returned by shear_modulous, <<>> before
    layer_log,      \* history: depth and result of every call of __source_layer
    fault_correct   \* <<result>> of is_fault_correct, <<>> before

plan_vars == <<args, pc, rupture_vel, subfaults, rise_time, hyp_location,
               event_mult_in, segments_json, segments_data>>
field_vars == <<call, fpc, grid, ref_coords, hypocenters, point_sources, matrix,
                idx, cell_n, field, writes, frame_log>>
shear_vars == <<shear_call, spc, velmodel, shear, niu_matrix, shear_seg, shear_sub,
                shear_out, layer_log>>
vars == <<plan_vars, field_vars, shear_vars, fault_correct>>

Prefix(seq, n) == {seq[i] : i \in 1..n}

----------------------------------------------------------------------------
(* create_finite_fault                                                     *)

\* input choices; the first NTimeShift, NDepth and NVel entries are drawn
TimeShiftChoices == <<QI(4), QI(10), QI(12), QI(24), QI(36), QI(48), QI(60)>>
DepthChoices == <<<<5, 2>>, QI(25), QI(100), QI(150), QI(300), QI(350), <<59, 4>>,
                  <<13, 2>>>>
\* Optional[float]: <<>> is None
VelChoices == <<<<>>, <<QI(1)>>, <<<<5, 2>>>>, <<<<1, 2>>>>>>
NTimeShift == 6
NDepth == 7
NVel == 3
DipChoices == {<<90, 1>>, <<3687, 100>>, <<1626, 100>>}
StrikeChoices == {<<34374, 100>>}
WaterChoices == {QI(0), QI(1)}
CbrtChoices == {QI(11), QI(100)}
CentroidChoices == {<<QI(-1), QI(1)>>, <<QI(0), QI(0)>>}

EventLat == <<-1626, 100>>
EventLon == QI(-70)

TensorInfos ==
    {[time_shift |-> ts, depth |-> dep, moment_cbrt |-> c,
      lat |-> EventLat, lon |-> EventLon,
      centroid_lat |-> QAdd(EventLat, cen[1]),
      centroid_lon |-> QAdd(EventLon, cen[2]),
      date_origin |-> [year |-> 2015, month |-> 9, julday |-> 259, hour |-> 22]] :
        ts \in Prefix(TimeShiftChoices, NTimeShift),
        dep \in Prefix(DepthChoices, NDepth),
        c \in CbrtChoices,
        cen \in CentroidChoices}

PlaneInfos ==
    {[strike |-> st, dip |-> dp, rake |-> QI(90)] :
        st \in StrikeChoices, dp \in DipChoices}

PlannerInit ==
    /\ args \in [tensor_info : TensorInfos,
                 np_plane_info : PlaneInfos,
                 data_type : {{"strong_motion"}, {"tele_body", "strong_motion"}},
                 water_level : WaterChoices,
                 rupture_vel : Prefix(VelChoices, NVel)]
    /\ pc = "start"
    /\ rupture_vel = <<>>
    /\ subfaults = <<>>
    /\ rise_time = <<>>
    /\ hyp_location = <<>>
    /\ event_mult_in = <<>>
    /\ segments_json = <<>>
    /\ segments_data = <<>>

\* no call of point_sources_param
FieldIdle ==
    /\ call = <<>>
    /\ fpc = "idle"
    /\ grid = <<>>
    /\ ref_coords = <<>>
    /\ hypocenters = <<>>
    /\ point_sources = <<>>
    /\ matrix = <<>>
    /\ idx = 0
    /\ cell_n = 0
    /\ field = <<>>
    /\ writes = <<>>
    /\ frame_log = <<>>

\* no call of shear_modulous
ShearIdle ==
    /\ shear_call = <<>>
    /\ spc = "idle"
    /\ velmodel = <<>>
    /\ shear = <<>>
    /\ niu_matrix = <<>>
    /\ shear_seg = 0
    /\ shear_sub = 0
    /\ shear_out = <<>>
    /\ layer_log = <<>>

\* no call of is_fault_correct
PrecheckIdle == fault_correct = <<>>

Init == PlannerInit /\ FieldIdle /\ ShearIdle /\ PrecheckIdle

\* plane_info of create_finite_fault (line 68)
plane_info == plane_tensor_def(args.np_plane_info.strike, args.np_plane_info.dip,
                               args.np_plane_info.rake, rupture_vel)

\* line 67: "not rupture_vel" holds for None and for 0.0
NotGiven(v) == v = <<>> \/ v[1][1] = 0

ResolveVelocity ==
    /\ pc = "start"
    /\ rupture_vel' = IF NotGiven(args.rupture_vel)
                      THEN default_vel_of_eq(args.tensor_info)
                      ELSE args.rupture_vel[1]
    /\ pc' = "plan"
    /\ UNCHANGED <<args, subfaults, rise_time, hyp_location, event_mult_in,
                   segments_json, segments_data, field_vars, shear_vars, fault_correct>>

\* lines 71-72
PlanFault ==
    /\ pc = "plan"
    /\ LET time_shift == args.tensor_info.time_shift
           eq_time == QAdd(QMul(QI(2), time_shift), QMul(<<3, 4>>, time_shift))
       IN  subfaults' = fault_plane_properties(eq_time, args.tensor_info, plane_info,
                                               args.water_level)
    /\ pc' = "rise"
    /\ UNCHANGED <<args, rupture_vel, rise_time, hyp_location, event_mult_in,
                   segments_json, segments_data, field_vars, shear_vars, fault_correct>>

\* line 73
EstimateRiseTime ==
    /\ pc = "rise"
    /\ rise_time' = rise_time_parameters(args.tensor_info, subfaults, args.data_type)
    /\ pc' = "locate"
    /\ UNCHANGED <<args, rupture_vel, subfaults, hyp_location, event_mult_in,
                   segments_json, segments_data, field_vars, shear_vars, fault_correct>>

\* lines 74-80
LocateHypocenter ==
    /\ pc = "locate"
    /\ hyp_location' = hypocenter_location2(plane_info, subfaults, args.tensor_info,
                                            args.water_level, rise_time)
    /\ pc' = "write"
    /\ UNCHANGED <<args, rupture_vel, subfaults, rise_time, event_mult_in,
                   segments_json, segments_data, field_vars, shear_vars, fault_correct>>

\* lines 84-91
WriteEventMultIn ==
    /\ pc = "write"
    /\ event_mult_in' = write_event_mult_in(args.tensor_info, plane_info, subfaults,
                                            hyp_location, rise_time)
    /\ pc' = "save"
    /\ UNCHANGED <<args, rupture_vel, subfaults, rise_time, hyp_location,
                   segments_json, segments_data, field_vars, shear_vars, fault_correct>>

\* lines 92-95
SavePlaneData ==
    /\ pc = "save"
    /\ LET doc == save_plane_data(plane_info, subfaults, hyp_location, rise_time)
       IN  /\ segments_json' = <<doc>>
           /\ segments_data' = <<doc>>
    /\ pc' = "returned"
    /\ UNCHANGED <<args, rupture_vel, subfaults, rise_time, hyp_location, event_mult_in,
                   field_vars, shear_vars, fault_correct>>

\* event_mult_in_to_json run on the Event_mult.in just written
ConvertEventMultIn ==
    /\ pc = "returned"
    /\ IF \A tok \in IntTokens(event_mult_in) : PyIntOk(tok)
       THEN /\ segments_json' = <<event_mult_in_to_json(event_mult_in)>>
            /\ pc' = "converted"
       ELSE /\ segments_json' = segments_json
            /\ pc' = "value_error"
    /\ UNCHANGED <<args, rupture_vel, subfaults, rise_time, hyp_location, event_mult_in,
                   segments_data, field_vars, shear_vars, fault_correct>>

Next ==
    \/ ResolveVelocity
    \/ PlanFault
    \/ EstimateRiseTime
    \/ LocateHypocenter
    \/ WriteEventMultIn
    \/ SavePlaneData
    \/ ConvertEventMultIn

Spec == Init /\ [][Next]_vars

----------------------------------------------------------------------------
(* _point_sources_def on its own                                           *)

\* input choices; the first NGridDelta entries are drawn for both spacings
GridDeltaChoices == <<QI(2), QI(4), QI(38), <<99, 50>>, <<15, 2>>, QI(100)>>
NGridDelta == 5
GridRiseChoices == {QI(1), <<3, 2>>, QI(4)}
GridVelChoices == {<<1, 2>>, QI(1), <<5, 2>>, <<18, 5>>}

\* create_finite_fault not running
PlannerIdle ==
    /\ args = <<>>
    /\ pc = "idle"
    /\ rupture_vel = <<>>
    /\ subfaults = <<>>
    /\ rise_time = <<>>
    /\ hyp_location = <<>>
    /\ event_mult_in = <<>>
    /\ segments_json = <<>>
    /\ segments_data = <<>>

GridInit ==
    /\ call \in [rise_time_param : [delta_rise : GridRiseChoices],
                 rupture_vel : GridVelChoices,
                 fault_dimensions : [delta_strike : Prefix(GridDeltaChoices, NGridDelta),
                                     delta_dip : Prefix(GridDeltaChoices, NGridDelta)]]
    /\ fpc = "grid_entry"
    /\ grid = <<>>
    /\ ref_coords = <<>>
    /\ hypocenters = <<>>
    /\ point_sources = <<>>
    /\ matrix = <<>>
    /\ idx = 0
    /\ cell_n = 0
    /\ field = <<>>
    /\ writes = <<>>
    /\ frame_log = <<>>

\* one call of _point_sources_def
PointSourcesDef ==
    /\ fpc = "grid_entry"
    /\ grid' = point_sources_def(call.rise_time_param, call.rupture_vel,
                                 call.fault_dimensions)
    /\ fpc' = "grid_done"
    /\ UNCHANGED <<call, ref_coords, hypocenters, point_sources, matrix, idx, cell_n,
                   field, writes, frame_log, plan_vars, shear_vars, fault_correct>>

NextGrid == PointSourcesDef

InitGrid == GridInit /\ PlannerIdle /\ ShearIdle /\ PrecheckIdle

SpecGrid == InitGrid /\ [][NextGrid]_vars

----------------------------------------------------------------------------
(* point_sources_param                                                     *)

MaxSegments == 3
MaxConnections == 2

\* strike and dip of the segment at each position of the list
SegmentGeometry ==
    <<[strike |-> <<0, 1>>, dip |-> <<3687, 100>>],
      [strike |-> <<34374, 100>>, dip |-> <<90, 1>>],
      [strike |-> <<0, 1>>, dip |-> <<1626, 100>>],
      [strike |-> <<12687, 100>>, dip |-> <<5313, 100>>],
      [strike |-> <<0, 1>>, dip |-> <<90, 1>>]>>

\* the optional "hypocenter" entry of a segment
NewHypocenter == [lat |-> GeoLat(<<-163, 10>>), lon |-> GeoLon(<<-701, 10>>),
                  depth |-> QI(5)]

\* a segment dictionary of segments_data.json; hypocenter = <<>> when the key is absent
SegmentAt(i, override) ==
    [strike |-> SegmentGeometry[i].strike, dip |-> SegmentGeometry[i].dip,
     rake |-> QI(90), rupture_vel |-> <<5, 2>>,
     delta_strike |-> QI(2), delta_dip |-> QI(4),
     stk_subfaults |-> 2, dip_subfaults |-> 2, hyp_stk |-> 1, hyp_dip |-> 2,
     hypocenter |-> IF override = i THEN <<NewHypocenter>> ELSE <<>>]

\* connections between two different segments of the list
ConnectionChoices(n) ==
    {[segment1 |-> p[1], segment2 |-> p[2],
      segment1_subfault |-> <<2, 2>>, segment2_subfault |-> <<1, 1>>] :
        p \in {q \in (1..n) \X (1..n) : q[1] # q[2]}}

ConnectionLists(n) ==
    UNION {[1..k -> ConnectionChoices(n)] : k \in 0..MaxConnections}

FieldDepthChoices == {QI(10), <<13, 4>>}

FieldInit ==
    /\ \E n \in 1..MaxSegments, override \in 0..MaxSegments, dep \in FieldDepthChoices :
        \E connections \in ConnectionLists(n) :
            /\ override <= n
            /\ call = [segments |-> [i \in 1..n |-> SegmentAt(i, override)],
                       tensor_info |-> [lat |-> GeoLat(EventLat), lon |-> GeoLon(EventLon),
                                        depth |-> dep],
                       rise_time |-> [min_rise |-> QI(1), delta_rise |-> QI(1),
                                      windows |-> 3],
                       connections |-> connections]
    /\ fpc = "entry"
    /\ grid = <<>>
    /\ ref_coords = <<>>
    /\ hypocenters = <<>>
    /\ point_sources = <<>>
    /\ matrix = <<>>
    /\ idx = 0
    /\ cell_n = 0
    /\ field = <<>>
    /\ writes = <<>>
    /\ frame_log = <<>>

NSegments == Len(call.segments)
delta_strike == call.segments[1].delta_strike
delta_dip == call.segments[1].delta_dip

\* lines 119-148: the grid, the placeholder lists and ref_coords[0]
PointSourcesEntry ==
    /\ fpc = "entry"
    /\ LET subfaults2 == point_sources_def(call.rise_time, call.segments[1].rupture_vel,
                                           [delta_strike |-> delta_strike,
                                            delta_dip |-> delta_dip])
           first == HypocenterFrame(call.tensor_info.lat, call.tensor_info.lon,
                                    call.tensor_info.depth, call.segments[1],
                                    delta_strike, delta_dip, subfaults2)
       IN  /\ grid' = subfaults2
           /\ ref_coords' = [i \in 1..NSegments |-> IF i = 1 THEN <<first>> ELSE <<>>]
    /\ point_sources' = [i \in 1..NSegments |-> <<>>]
    /\ hypocenters' = [i \in 1..NSegments |-> <<>>]
    /\ writes' = [i \in 1..NSegments |-> <<>>]
    /\ idx' = 1
    /\ fpc' = "hypocenters"
    /\ UNCHANGED <<call, matrix, cell_n, field, frame_log, plan_vars, shear_vars, fault_correct>>

\* after the last hypocenter: line 163, "if connections"
AfterHypocenters == IF call.connections # <<>> THEN "connections" ELSE "fields"

\* lines 149-162: one pass of the hypocenter loop
SetHypocenter ==
    /\ fpc = "hypocenters"
    /\ LET segment == call.segments[idx]
       IN  IF segment.hypocenter = <<>>
           THEN /\ hypocenters' = [hypocenters EXCEPT ![idx] =
                                      <<[lat |-> call.tensor_info.lat,
                                         lon |-> call.tensor_info.lon,
                                         depth |-> call.tensor_info.depth]>>]
                /\ ref_coords' = ref_coords
           ELSE LET new_hypocenter == segment.hypocenter[1]
                IN  /\ ref_coords' = [ref_coords EXCEPT ![idx] =
                                         <<HypocenterFrame(new_hypocenter.lat,
                                                           new_hypocenter.lon,
                                                           new_hypocenter.depth, segment,
                                                           delta_strike, delta_dip, grid)>>]
                    /\ hypocenters' = [hypocenters EXCEPT ![idx] = <<new_hypocenter>>]
    /\ IF idx = NSegments
       THEN idx' = 1 /\ fpc' = AfterHypocenters
       ELSE idx' = idx + 1 /\ fpc' = fpc
    /\ UNCHANGED <<call, grid, point_sources, matrix, cell_n, field, writes, frame_log,
                   plan_vars, shear_vars, fault_correct>>

\* lines 164-182: one pass of the connection loop, in the order of the list;
\* unpacking the placeholder [] at line 169 raises ValueError
ResolveConnection ==
    /\ fpc = "connections"
    /\ LET connection == call.connections[idx]
           segment1 == connection.segment1
           segment2 == connection.segment2
       IN  IF ref_coords[segment1] = <<>>
           THEN /\ fpc' = "value_error"
                /\ UNCHANGED <<ref_coords, frame_log, idx>>
           ELSE /\ ref_coords' = [ref_coords EXCEPT ![segment2] =
                                     <<ConnectionFrame(connection, ref_coords[segment1][1],
                                                       call.segments[segment1],
                                                       delta_strike, delta_dip)>>]
                /\ frame_log' = Append(frame_log, [segment1 |-> segment1,
                                                   segment2 |-> segment2,
                                                   frame |-> ref_coords[segment1][1]])
                /\ IF idx = Len(call.connections)
                   THEN idx' = 1 /\ fpc' = "fields"
                   ELSE idx' = idx + 1 /\ fpc' = fpc
    /\ UNCHANGED <<call, grid, hypocenters, point_sources, matrix, cell_n, field, writes,
                   plan_vars, shear_vars, fault_correct>>

\* lines 188-205: the head of the segment loop; unpacking the placeholder []
\* at line 205 raises ValueError
BeginSegment ==
    /\ fpc = "fields"
    /\ IF ref_coords[idx] = <<>>
       THEN /\ fpc' = "value_error"
            /\ UNCHANGED <<matrix, cell_n, writes>>
       ELSE /\ matrix' = Zeros(call.segments[idx], grid)
            /\ writes' = [writes EXCEPT ![idx] =
                             [c \in Cells(call.segments[idx], grid) |-> 0]]
            /\ cell_n' = 0
            /\ fpc' = "cells"
    /\ UNCHANGED <<call, grid, ref_coords, hypocenters, point_sources, idx, field,
                   frame_log, plan_vars, shear_vars, fault_correct>>

\* lines 213-238: the body of the four nested loops for one cell
ComputeCell ==
    /\ fpc = "cells"
    /\ cell_n < CellCount(call.segments[idx], grid)
    /\ LET segment == call.segments[idx]
           c == CellAt(cell_n, segment, grid)
           entry == CellEntry(c, segment, ref_coords[idx][1], hypocenters[idx][1],
                              delta_strike, delta_dip, segment.rupture_vel, grid)
       IN  IF AboveGround(entry.depth)
           THEN /\ fpc' = "geometry_error"
                /\ UNCHANGED <<matrix, cell_n, writes>>
           ELSE /\ matrix' = [matrix EXCEPT ![c] = entry]
                /\ writes' = [writes EXCEPT ![idx][c] = @ + 1]
                /\ cell_n' = cell_n + 1
                /\ fpc' = fpc
    /\ UNCHANGED <<call, grid, ref_coords, hypocenters, point_sources, idx, field,
                   frame_log, plan_vars, shear_vars, fault_correct>>

\* line 239, after the last cell of a segment
FinishSegment ==
    /\ fpc = "cells"
    /\ cell_n = CellCount(call.segments[idx], grid)
    /\ point_sources' = [point_sources EXCEPT ![idx] = <<matrix>>]
    /\ IF idx = NSegments
       THEN idx' = idx /\ fpc' = "return"
       ELSE idx' = idx + 1 /\ fpc' = "fields"
    /\ UNCHANGED <<call, grid, ref_coords, hypocenters, matrix, cell_n, field, writes,
                   frame_log, plan_vars, shear_vars, fault_correct>>

\* line 240
ReturnPointSources ==
    /\ fpc = "return"
    /\ field' = <<point_sources>>
    /\ fpc' = "returned"
    /\ UNCHANGED <<call, grid, ref_coords, hypocenters, point_sources, matrix, idx,
                   cell_n, writes, frame_log, plan_vars, shear_vars, fault_correct>>

NextField ==
    \/ PointSourcesEntry
    \/ SetHypocenter
    \/ ResolveConnection
    \/ BeginSegment
    \/ ComputeCell
    \/ FinishSegment
    \/ ReturnPointSources

InitField == FieldInit /\ PlannerIdle /\ ShearIdle /\ PrecheckIdle

SpecField == InitField /\ [][NextField]_vars

----------------------------------------------------------------------------
(* shear_modulous and __source_layer.  s_vel is held in m/s and dens in    *)
(* units of 10^-4 g/cm^3, both integers, so that s_vel^2 * dens is the     *)
(* exact value of float(vel_s) ** 2 * float(dens) * 10 ** 10.  Thicknesses *)
(* and depths are rationals in km, layer indices are 0-based as in the     *)
(* source.                                                                 *)

DefaultPVel == <<5800, 6800, 8080, 8594, 8732, 8871, 9219, 9561, 9902, 10073, 10212,
                 10791, 10869>>
\* variant of DefaultSVel: a low-velocity third layer
DefaultSVelLowZone == <<3200, 3900, 3473, 4657, 4707, 4757, 4981, 5176, 5370, 5467,
                        5543, 5982, 6056>>

DefaultSVel == <<3200, 3900, 4473, 4657, 4707, 4757, 4981, 5176, 5370, 5467, 5543,
                 5982, 6056>>
DefaultDens == <<26000, 29000, 33754, 34465, 34895, 35325, 37448, 38288, 39128, 39548,
                 39840, 43886, 44043>>
DefaultThick == <<QI(12), <<47, 5>>, QI(196), QI(36), QI(108), QI(36), <<33333, 1000>>,
                  QI(100), <<33333, 1000>>, <<33333, 1000>>, QI(70), <<101, 4>>, QI(0)>>
DefaultVelmodel == [p_vel |-> DefaultPVel, s_vel |-> DefaultSVel, dens |-> DefaultDens,
                    thick |-> DefaultThick]

\* cumul_depth[j] of lines 658-661, j in 0..n_layers
RECURSIVE cumul_depth(_, _)
cumul_depth(thick, j) ==
    IF j = 0 THEN <<0, 1>> ELSE QAdd(cumul_depth(thick, j - 1), thick[j])

\* variant of LayerMatches: the lower interface excluded
LayerMatchesHalfOpen(thick, j, source_depth) ==
    /\ QLe(cumul_depth(thick, j), source_depth)
    /\ QLt(source_depth, cumul_depth(thick, j + 1))

\* the test of line 664
LayerMatches(thick, j, source_depth) ==
    /\ QLe(cumul_depth(thick, j), source_depth)
    /\ QLe(source_depth, cumul_depth(thick, j + 1))

\* variant of ScanLayers: the last layer taken when no layer matches
RECURSIVE ScanLayersOrLast(_, _, _)
ScanLayersOrLast(thick, j, source_depth) ==
    IF j >= Len(thick) THEN <<Len(thick) - 1>>
    ELSE IF LayerMatches(thick, j, source_depth) THEN <<j>>
    ELSE ScanLayersOrLast(thick, j + 1, source_depth)

\* the loop of lines 663-666 from index j on: <<layer>>, or <<>> when the loop
\* ends with source_layer unassigned
RECURSIVE ScanLayers(_, _, _)
ScanLayers(thick, j, source_depth) ==
    IF j >= Len(thick) THEN <<>>
    ELSE IF LayerMatches(thick, j, source_depth) THEN <<j>>
    ELSE ScanLayers(thick, j + 1, source_depth)

\* __source_layer: <<index>>, or <<>> for the UnboundLocalError of line 667
source_layer(thick, source_depth) == ScanLayers(thick, 0, source_depth)

\* niu of lines 370-374 as <<high, low>>, the value being high * 10^4 + low
Niu(vel_s, dens) ==
    LET sq == vel_s * vel_s
        low == (sq % 10000) * dens
    IN  <<(sq \div 10000) * dens + (low \div 10000), low % 10000>>
NiuLe(a, b) == a[1] < b[1] \/ (a[1] = b[1] /\ a[2] <= b[2])

\* input choices; the first NShearDepth entries are drawn
ShearDepthChoices == <<QI(12), <<107, 5>>, <<692649, 1000>>, QI(700), QI(100), QI(5),
                       <<1087, 5>>, <<11, 100>>, QI(300)>>
NShearDepth == 5
MaxShearSegments == 2

\* a velocity model passed by the caller: two layers over a half-space
ThreeLayerVelmodel == [p_vel |-> <<5800, 6800, 8080>>, s_vel |-> <<3200, 3900, 4473>>,
                       dens |-> <<26000, 29000, 33754>>,
                       thick |-> <<QI(12), QI(88), QI(0)>>]

\* a point-source array of shape (Len(rows), 1, 3, 1, 7), of which only the
\* depths are kept: the central point source of row i lies at rows[i + 1]
ShearArray(rows) ==
    [shape |-> <<Len(rows), 1, 3, 1, 7>>,
     depth |-> [c \in (0..(Len(rows) - 1)) \X {0} \X (0..2) \X {0} |->
                   QAdd(rows[c[1] + 1], Q(c[3] - 1, 100))]]

\* the first segment has two rows of sub-faults, the others one
ShearRows(i) == IF i = 1 THEN 2 ELSE 1

ShearInit ==
    /\ \E n \in 1..MaxShearSegments :
        \E rows \in [1..n -> UNION {[1..k -> Prefix(ShearDepthChoices, NShearDepth)] :
                                        k \in 1..2}] :
            /\ \A i \in 1..n : Len(rows[i]) = ShearRows(i)
            /\ \E model \in {<<>>, <<ThreeLayerVelmodel>>} :
                shear_call = [point_sources |-> [i \in 1..n |-> ShearArray(rows[i])],
                              velmodel |-> model]
    /\ spc = "entry"
    /\ velmodel = <<>>
    /\ shear = <<>>
    /\ niu_matrix = <<>>
    /\ shear_seg = 0
    /\ shear_sub = 0
    /\ shear_out = <<>>
    /\ layer_log = <<>>

\* lines 285-361: the default model for "not velmodel", the placeholder list
ShearEntry ==
    /\ spc = "entry"
    /\ velmodel' = IF shear_call.velmodel = <<>> THEN DefaultVelmodel
                   ELSE shear_call.velmodel[1]
    /\ shear' = [i \in 1..Len(shear_call.point_sources) |-> <<>>]
    /\ shear_seg' = 1
    /\ spc' = "segments"
    /\ UNCHANGED <<shear_call, niu_matrix, shear_sub, shear_out, layer_log,
                   plan_vars, field_vars, fault_correct>>

\* lines 363-365: np.zeros((n_dip, n_stk))
ShearBeginSegment ==
    /\ spc = "segments"
    /\ LET shape == shear_call.point_sources[shear_seg].shape
       IN  niu_matrix' = [c \in (0..(shape[1] - 1)) \X (0..(shape[2] - 1)) |-> <<0, 0>>]
    /\ shear_sub' = 0
    /\ spc' = "subfaults"
    /\ UNCHANGED <<shear_call, velmodel, shear, shear_seg, shear_out, layer_log,
                   plan_vars, field_vars, fault_correct>>

\* the depth read at line 368 for sub-fault (i, j)
CentralDepth(point_sources_seg, i, j) ==
    point_sources_seg.depth[<<i, j, point_sources_seg.shape[3] \div 2,
                              point_sources_seg.shape[4] \div 2>>]

\* lines 368-375 for one sub-fault (i, j)
ShearSubfault ==
    /\ spc = "subfaults"
    /\ LET point_sources_seg == shear_call.point_sources[shear_seg]
           n_dip == point_sources_seg.shape[1]
           n_stk == point_sources_seg.shape[2]
           i == shear_sub \div n_stk
           j == shear_sub % n_stk
           dep_p == CentralDepth(point_sources_seg, i, j)
           layer == source_layer(velmodel.thick, dep_p)
       IN  /\ shear_sub < n_dip * n_stk
           /\ layer_log' = Append(layer_log, [depth |-> dep_p, layer |-> layer])
           /\ IF layer = <<>>
              THEN /\ spc' = "unbound_error"
                   /\ UNCHANGED <<niu_matrix, shear_sub>>
              ELSE /\ niu_matrix' = [niu_matrix EXCEPT ![<<i, j>>] =
                                        Niu(velmodel.s_vel[layer[1] + 1],
                                            velmodel.dens[layer[1] + 1])]
                   /\ shear_sub' = shear_sub + 1
                   /\ spc' = spc
    /\ UNCHANGED <<shear_call, velmodel, shear, shear_seg, shear_out,
                   plan_vars, field_vars, fault_correct>>

\* line 376, after the last sub-fault of a segment
ShearFinishSegment ==
    /\ spc = "subfaults"
    /\ LET shape == shear_call.point_sources[shear_seg].shape
       IN  shear_sub = shape[1] * shape[2]
    /\ shear' = [shear EXCEPT ![shear_seg] = <<niu_matrix>>]
    /\ IF shear_seg = Len(shear_call.point_sources)
       THEN shear_seg' = shear_seg /\ spc' = "return"
       ELSE shear_seg' = shear_seg + 1 /\ spc' = "segments"
    /\ UNCHANGED <<shear_call, velmodel, niu_matrix, shear_sub, shear_out, layer_log,
                   plan_vars, field_vars, fault_correct>>

\* line 377
ShearReturn ==
    /\ spc = "return"
    /\ shear_out' = <<shear>>
    /\ spc' = "returned"
    /\ UNCHANGED <<shear_call, velmodel, shear, niu_matrix, shear_seg, shear_sub,
                   layer_log, plan_vars, field_vars, fault_correct>>

NextShear ==
    \/ ShearEntry
    \/ ShearBeginSegment
    \/ ShearSubfault
    \/ ShearFinishSegment
    \/ ShearReturn

InitShear == ShearInit /\ PlannerIdle /\ FieldIdle /\ PrecheckIdle

SpecShear == InitShear /\ [][NextShear]_vars

----------------------------------------------------------------------------
(* is_fault_correct, followed by point_sources_param on the same segment   *)

\* is_fault_correct
is_fault_correct(tensor_info, segment) ==
    LET length == QMul(QSub(QI(segment.hyp_dip), <<1, 5>>), segment.delta_dip)
        height == QMul(SinDeg(segment.dip), length)
    IN  QLt(height, tensor_info.depth)

\* input choices; the first NPrecheckDepth depths are drawn
PrecheckDepthChoices == <<<<13, 50>>, QI(1), QI(10), <<3, 10>>>>
NPrecheckDepth == 3
PrecheckDipChoices == {<<90, 1>>, <<3687, 100>>, <<1626, 100>>}
PrecheckDeltaDipChoices == {<<1, 2>>, QI(2), QI(4)}
PrecheckVelChoices == {<<5, 2>>, <<1, 2>>}

\* one segment anchored at the event hypocenter, no connections
PrecheckInit ==
    /\ \E dep \in Prefix(PrecheckDepthChoices, NPrecheckDepth), dip \in PrecheckDipChoices,
          d_dip \in PrecheckDeltaDipChoices, vel \in PrecheckVelChoices, hyp \in 1..2 :
        call = [segments |-> <<[strike |-> <<0, 1>>, dip |-> dip, rake |-> QI(90),
                                rupture_vel |-> vel,
                                delta_strike |-> <<1, 4>>, delta_dip |-> d_dip,
                                stk_subfaults |-> 1, dip_subfaults |-> 2,
                                hyp_stk |-> 1, hyp_dip |-> hyp, hypocenter |-> <<>>]>>,
                tensor_info |-> [lat |-> GeoLat(EventLat), lon |-> GeoLon(EventLon),
                                 depth |-> dep],
                rise_time |-> [min_rise |-> QI(1), delta_rise |-> QI(1), windows |-> 3],
                connections |-> <<>>]
    /\ fpc = "precheck"
    /\ grid = <<>>
    /\ ref_coords = <<>>
    /\ hypocenters = <<>>
    /\ point_sources = <<>>
    /\ matrix = <<>>
    /\ idx = 0
    /\ cell_n = 0
    /\ field = <<>>
    /\ writes = <<>>
    /\ frame_log = <<>>
    /\ fault_correct = <<>>

\* the caller asks is_fault_correct before it calls point_sources_param
IsFaultCorrect ==
    /\ fpc = "precheck"
    /\ fault_correct' = <<is_fault_correct(call.tensor_info, call.segments[1])>>
    /\ fpc' = "entry"
    /\ UNCHANGED <<call, grid, ref_coords, hypocenters, point_sources, matrix, idx,
                   cell_n, field, writes, frame_log, plan_vars, shear_vars>>

NextPrecheck ==
    \/ IsFaultCorrect
    \/ PointSourcesEntry
    \/ SetHypocenter
    \/ BeginSegment
    \/ ComputeCell
    \/ FinishSegment
    \/ ReturnPointSources

InitPrecheck == PrecheckInit /\ PlannerIdle /\ ShearIdle

SpecPrecheck == InitPrecheck /\ [][NextPrecheck]_vars

----------------------------------------------------------------------------
(* Properties of create_finite_fault                                       *)

VelocityDone == pc # "start"
PlanDone == pc \notin {"start", "plan"}
RiseDone == pc \notin {"start", "plan", "rise"}
LocateDone == pc \notin {"start", "plan", "rise", "locate"}

\* C1: the hypocenter indices returned by the locator lie inside their axes,
\* 1 <= hyp_stk <= stk_subfaults and 1 <= hyp_dip <= dip_subfaults.
C1_IndicesInsideAxis ==
    LocateDone =>
        /\ 1 <= hyp_location.hyp_stk
        /\ hyp_location.hyp_stk <= subfaults.stk_subfaults
        /\ 1 <= hyp_location.hyp_dip
        /\ hyp_location.hyp_dip <= subfaults.dip_subfaults

\* C2 as stated: the padded window count is at least 3 for every input, a
\* supplied rupture velocity included.
C2_WindowsAtLeast3 == RiseDone => rise_time.windows >= 3

\* C2 amended: the padded window count is at least 3 whenever the rupture
\* velocity is the default one, and at least 2 with a supplied velocity.
C2_WindowsAtLeast3ByDefault ==
    RiseDone =>
        /\ rise_time.windows >= 2
        /\ args.rupture_vel = <<>> => rise_time.windows >= 3

C2_Witness ==
    /\ RiseDone
    /\ args.rupture_vel = <<>>
    /\ QLt(QI(10), args.tensor_info.time_shift)
    /\ "tele_body" \in args.data_type
    /\ rise_time.windows = 3

Odd(n) == n % 2 = 1

\* C3: the planner returns odd counts, stk_subfaults in 1..45 and
\* dip_subfaults in 3..15.
C3_CountsOddInRange ==
    PlanDone =>
        /\ Odd(subfaults.stk_subfaults)
        /\ 1 <= subfaults.stk_subfaults /\ subfaults.stk_subfaults <= 45
        /\ Odd(subfaults.dip_subfaults)
        /\ 3 <= subfaults.dip_subfaults /\ subfaults.dip_subfaults <= 15

C3_Witness ==
    /\ PlanDone
    /\ subfaults.stk_subfaults = 45
    /\ subfaults.dip_subfaults = 5

\* the rule of C10 for a velocity that is not supplied
C10_Rule(tensor_info) ==
    IF QLt(QMul(<<18, 5>>, tensor_info.moment_cbrt), tensor_info.time_shift)
    THEN <<3, 2>>
    ELSE IF QLt(QI(300), tensor_info.depth) THEN <<18, 5>>
    ELSE IF QLt(QI(100), tensor_info.depth) THEN <<3, 1>>
    ELSE <<5, 2>>

C9_RoundTrip ==
    /\ pc # "value_error"
    /\ pc = "converted" =>
        LET a == segments_data[1]
            b == segments_json[1]
            sa == a.segments[1]
            sb == b.segments[1]
        IN  /\ b.rise_time = a.rise_time
            /\ Len(b.segments) = 1
            /\ DOMAIN sb = DOMAIN sa
            /\ sb.strike = sa.strike /\ sb.dip = sa.dip /\ sb.rake = sa.rake
            /\ sb.rupture_vel = sa.rupture_vel
            /\ sb.delta_strike = sa.delta_strike /\ sb.delta_dip = sa.delta_dip
            /\ sb.stk_subfaults = sa.stk_subfaults
            /\ sb.dip_subfaults = sa.dip_subfaults
            /\ sb.delay_segment = QI(sa.delay_segment)
            /\ sb.hyp_stk = sa.hyp_stk /\ sb.hyp_dip = sa.hyp_dip
            /\ sb.neighbours = <<>> /\ sa.neighbours = <<>>

C9_Witness ==
    /\ pc = "converted"
    /\ segments_json[1].segments[1].delta_strike # segments_json[1].segments[1].delta_dip
    /\ segments_json[1].segments[1].hyp_stk # segments_json[1].segments[1].hyp_dip
    /\ segments_json[1].segments[1].delta_strike[2] > 100

----------------------------------------------------------------------------
(* Properties of _point_sources_def                                        *)

GridDone == fpc = "grid_done"

\* C4: for positive delta_strike, delta_dip, delta_rise and rupture_vel the
\* grid builder returns strike_ps odd and >= 1, dip_ps odd with
\* 1 <= dip_ps <= 17, dx = delta_strike / strike_ps, dy = delta_dip / dip_ps,
\* so that strike_ps * dx = delta_strike and dip_ps * dy = delta_dip.
C4_GridOddAndExact ==
    GridDone =>
        LET d_strike == call.fault_dimensions.delta_strike
            d_dip == call.fault_dimensions.delta_dip
        IN  /\ Odd(grid.strike_ps) /\ grid.strike_ps >= 1
            /\ Odd(grid.dip_ps) /\ 1 <= grid.dip_ps /\ grid.dip_ps <= 17
            /\ grid.dx = QDiv(d_strike, QI(grid.strike_ps))
            /\ grid.dy = QDiv(d_dip, QI(grid.dip_ps))
            /\ QMul(QI(grid.strike_ps), grid.dx) = d_strike
            /\ QMul(QI(grid.dip_ps), grid.dy) = d_dip

\* the count before the cap is 16 or more, and the result is 17
C4_Witness ==
    /\ GridDone
    /\ QTrunc(QDiv(call.fault_dimensions.delta_dip,
                   QMul(call.rise_time_param.delta_rise, call.rupture_vel))) + 1 >= 16
    /\ grid.dip_ps = 17
    /\ grid.strike_ps > 1
    /\ grid.dy[2] > 1

----------------------------------------------------------------------------
(* Properties of point_sources_param                                       *)

EntryNames == {"lat", "lon", "depth", "distance_sq", "time_sq", "dist", "az"}

\* the depth line 222 computes for the n-th cell of segment i
DepthOfCell(i, n) ==
    CellDepth(CellAt(n, call.segments[i], grid), call.segments[i], ref_coords[i][1],
              delta_dip, grid)

\* C5: point_sources_param is all-or-nothing.  A cell whose computed depth is
\* below 0.1 km ends the call in the error outcome with no field returned,
\* also after earlier segments were filled; a returned field has one array
\* per segment with every cell of (dip_subfaults, stk_subfaults, dip_ps,
\* strike_ps) holding 7 values, written exactly once, with depth >= 0.1.
C5_AllOrNothing ==
    /\ fpc # "returned" => field = <<>>
    /\ fpc = "geometry_error" => QLt(DepthOfCell(idx, cell_n), <<1, 10>>)
    /\ fpc = "cells" =>
        \A n \in 0..(cell_n - 1) : QLe(<<1, 10>>, DepthOfCell(idx, n))
    /\ fpc = "returned" =>
        /\ field # <<>>
        /\ DOMAIN field[1] = 1..NSegments
        /\ \A i \in 1..NSegments :
            /\ field[1][i] # <<>>
            /\ LET array == field[1][i][1]
                   segment == call.segments[i]
               IN  /\ DOMAIN array = Cells(segment, grid)
                   /\ Cardinality(DOMAIN array) =
                          segment.dip_subfaults * segment.stk_subfaults
                              * grid.dip_ps * grid.strike_ps
                   /\ \A c \in DOMAIN array :
                       /\ DOMAIN array[c] = EntryNames
                       /\ writes[i][c] = 1
                       /\ QLe(<<1, 10>>, array[c].depth)
                       /\ array[c].depth = CellDepth(c, segment, ref_coords[i][1],
                                                     delta_dip, grid)

\* the error is raised in the second segment, after the first was filled
C5_Witness ==
    /\ fpc = "geometry_error"
    /\ idx = 2
    /\ point_sources[1] # <<>>
    /\ field = <<>>

\* the planned segment, its grid and its frame, as point_sources_param
\* derives them from the outputs of create_finite_fault
PlannedSegment ==
    save_plane_data(plane_info, subfaults, hyp_location, rise_time).segments[1]
PlannedGrid == point_sources_def(rise_time, rupture_vel, subfaults)
PlannedFrame ==
    HypocenterFrame(GeoLat(args.tensor_info.lat), GeoLon(args.tensor_info.lon),
                    args.tensor_info.depth, PlannedSegment,
                    subfaults.delta_strike, subfaults.delta_dip, PlannedGrid)

\* some grid cell of the planned segment has a depth below 0.1 km (the depth
\* of a cell depends on its two down-dip indices only)
InvalidScenario ==
    \E k2 \in 0..(PlannedSegment.dip_subfaults - 1), k1 \in 0..(PlannedGrid.dip_ps - 1) :
        QLt(CellDepth(<<k2, 0, k1, 0>>, PlannedSegment, PlannedFrame,
                      subfaults.delta_dip, PlannedGrid), <<1, 10>>)

\* C6: for an input whose resolved point-source depth at some grid cell is
\* below 0.1 km, create_finite_fault writes neither Event_mult.in nor
\* segments_data.json and returns no segments document.
C6_NoOutputWhenInvalid ==
    (LocateDone /\ InvalidScenario) =>
        /\ event_mult_in = <<>>
        /\ segments_json = <<>>
        /\ segments_data = <<>>

ConnectionsDone == fpc \in {"fields", "cells", "return", "returned", "geometry_error"}

\* the point of a segment at local grid offset (n_stk * delta_strike,
\* n_dip * delta_dip) in the frame ref, as lines 220-225 compute it
PointAt(segment, ref, n_stk, n_dip) ==
    LET x == QSub(QMul(QI(n_stk), delta_strike), ref.x_ref)
        y == QSub(QMul(QI(n_dip), delta_dip), ref.y_ref)
        ll == lat_lon(segment.strike, segment.dip, x, y, ref.lat, ref.lon)
    IN  [lat |-> ll[1], lon |-> ll[2], depth |-> DepthAt(y, segment.dip, ref.depth)]

\* every connection leads from an earlier to a later segment of the list
ForwardConnections ==
    \A k \in DOMAIN call.connections :
        call.connections[k].segment1 < call.connections[k].segment2

\* no segment is the dependent (segment2) of two connections
OneConnectionPerDependent ==
    \A j, k \in DOMAIN call.connections :
        call.connections[j].segment2 = call.connections[k].segment2 => j = k

\* C7: once the frames are set, for every connection with both frames
\* resolved the point of segment2 at its shared sub-fault has the same
\* (lat, lon, depth) as the point of segment1 at its shared sub-fault.
C7_SegmentsMeet ==
    (ConnectionsDone /\ ForwardConnections /\ OneConnectionPerDependent) =>
        \A k \in DOMAIN call.connections :
            LET connection == call.connections[k]
                s1 == connection.segment1
                s2 == connection.segment2
            IN  (ref_coords[s1] # <<>> /\ ref_coords[s2] # <<>>) =>
                    PointAt(call.segments[s2], ref_coords[s2][1],
                            connection.segment2_subfault[1],
                            connection.segment2_subfault[2])
                    = PointAt(call.segments[s1], ref_coords[s1][1],
                              connection.segment1_subfault[1],
                              connection.segment1_subfault[2])

\* C8: the partner frame a connection was computed from stays the partner's
\* frame: no connection processed later changes it.
C8_PartnerFrameFinal ==
    (fpc # "idle" /\ ForwardConnections /\ OneConnectionPerDependent) =>
        \A k \in DOMAIN frame_log :
            ref_coords[frame_log[k].segment1] = <<frame_log[k].frame>>

----------------------------------------------------------------------------
(* Properties of shear_modulous and __source_layer                         *)

ShearReturned == spc = "returned"
DefaultModelUsed == shear_call.velmodel = <<>>

\* the sub-faults of the call as <<segment, i, j>>
ShearSubfaults ==
    {t \in (1..Len(shear_call.point_sources)) \X (0..1) \X {0} :
        t[2] < shear_call.point_sources[t[1]].shape[1]}

\* C11: in the default 13-layer table s_vel[j]^2 * dens[j] * 1e10 is
\* non-decreasing in j = 0..12, so a sub-fault whose representative depth
\* lies in a deeper layer never gets a smaller shear modulus.
C11_ShearNonDecreasing ==
    /\ \A j \in 1..12 :
        NiuLe(Niu(DefaultSVel[j], DefaultDens[j]),
              Niu(DefaultSVel[j + 1], DefaultDens[j + 1]))
    /\ (ShearReturned /\ DefaultModelUsed) =>
        \A a \in ShearSubfaults, b \in ShearSubfaults :
            LET depth_a == CentralDepth(shear_call.point_sources[a[1]], a[2], a[3])
                depth_b == CentralDepth(shear_call.point_sources[b[1]], b[2], b[3])
            IN  source_layer(DefaultThick, depth_a)[1]
                    <= source_layer(DefaultThick, depth_b)[1]
                => NiuLe(shear_out[1][a[1]][1][<<a[2], a[3]>>],
                         shear_out[1][b[1]][1][<<b[2], b[3]>>])

\* two rows of one segment in different layers, the deeper one stiffer
C11_Witness ==
    /\ ShearReturned
    /\ DefaultModelUsed
    /\ layer_log[1].layer[1] = 1
    /\ layer_log[2].layer[1] = 11
    /\ shear_out[1][1][1][<<0, 0>>] # shear_out[1][1][1][<<1, 0>>]
    /\ NiuLe(shear_out[1][1][1][<<0, 0>>], shear_out[1][1][1][<<1, 0>>])

----------------------------------------------------------------------------
(* The rise-time estimator against its reference                           *)

\* int(1.5 * m / divisor) of the reference
RefWindows(m, divisor) == QTrunc(QDiv(QMul(<<3, 2>>, m), divisor))

\* the four time_shift branches of the reference as <<applies, windows, delta_rise>>
RefBranches(m, ts) ==
    {<<QLe(ts, QI(10)), RefWindows(m, QI(2)), QI(1)>>,
     <<QLt(QI(10), ts) /\ QLe(ts, QI(24)), RefWindows(m, QI(4)), QI(2)>>,
     <<QLe(QI(48), ts), RefWindows(m, QI(8)), QI(4)>>,
     <<QLt(QI(24), ts) /\ QLt(ts, QI(48)),
       QTrunc(QDiv(QMul(QMul(<<3, 2>>, m), QI(6)), ts)), QDiv(ts, QI(12))>>}

\* C12: the estimator's result equals the reference: exactly one time_shift
\* branch applies (<= 10; (10, 24]; >= 48; (24, 48)), then 'tele_body' takes
\* max(int(1.5*m/3), windows) and min(1.5, delta_rise), then depth > 200
\* resets windows to int(1.5*m/2) and delta_rise to 1, then min_rise =
\* delta_rise and windows grows by 2.
C12_RiseTimeReference ==
    RiseDone =>
        LET m == QMax(subfaults.delta_strike, subfaults.delta_dip)
            ts == args.tensor_info.time_shift
            applying == {b \in RefBranches(m, ts) : b[1]}
        IN  /\ Cardinality(applying) = 1
            /\ \A b \in applying :
                LET tele == "tele_body" \in args.data_type
                    deep == QLt(QI(200), args.tensor_info.depth)
                    w1 == IF tele /\ RefWindows(m, QI(3)) > b[2]
                          THEN RefWindows(m, QI(3)) ELSE b[2]
                    r1 == IF tele /\ QLt(<<3, 2>>, b[3]) THEN <<3, 2>> ELSE b[3]
                    w2 == IF deep THEN RefWindows(m, QI(2)) ELSE w1
                    r2 == IF deep THEN QI(1) ELSE r1
                IN  rise_time = [min_rise |-> r2, delta_rise |-> r2, windows |-> w2 + 2]

\* the catch-all branch with 'tele_body' at a depth of at most 200 km
C12_Witness ==
    /\ RiseDone
    /\ QLt(QI(24), args.tensor_info.time_shift)
    /\ QLt(args.tensor_info.time_shift, QI(48))
    /\ "tele_body" \in args.data_type
    /\ QLe(args.tensor_info.depth, QI(200))
    /\ rise_time.delta_rise = <<3, 2>>
    /\ rise_time.windows > 3

----------------------------------------------------------------------------
(* The field of the first segment around the hypocenter                    *)

\* the 0-based cell of sub-fault (hyp_dip, hyp_stk) and of the central point
\* source ((dip_ps + 1) / 2, (strike_ps + 1) / 2)
HypocenterCell ==
    <<call.segments[1].hyp_dip - 1, call.segments[1].hyp_stk - 1,
      (grid.dip_ps + 1) \div 2 - 1, (grid.strike_ps + 1) \div 2 - 1>>

FirstSegmentFilled ==
    /\ fpc \in {"fields", "cells", "return", "returned", "geometry_error", "value_error"}
    /\ point_sources[1] # <<>>

\* C13: for the first segment without a hypocenter override and with the
\* hypocenter indices inside the grid, the cell of the hypocenter sub-fault
\* and central point source has rupture distance 0, rupture time 0, the event
\* depth and the event (lat, lon); every other cell of the segment has a
\* positive rupture distance and rupture time = distance / rupture_vel.
C13_CentredOnHypocenter ==
    (/\ FirstSegmentFilled
     /\ call.segments[1].hypocenter = <<>>
     /\ 1 <= call.segments[1].hyp_stk
     /\ call.segments[1].hyp_stk <= call.segments[1].stk_subfaults
     /\ 1 <= call.segments[1].hyp_dip
     /\ call.segments[1].hyp_dip <= call.segments[1].dip_subfaults) =>
        LET array == point_sources[1][1]
            vel == call.segments[1].rupture_vel
        IN  /\ HypocenterCell \in DOMAIN array
            /\ array[HypocenterCell].distance_sq = <<0, 1>>
            /\ array[HypocenterCell].time_sq = <<0, 1>>
            /\ array[HypocenterCell].depth = call.tensor_info.depth
            /\ array[HypocenterCell].lat = call.tensor_info.lat
            /\ array[HypocenterCell].lon = call.tensor_info.lon
            /\ \A c \in DOMAIN array \ {HypocenterCell} :
                /\ QLt(<<0, 1>>, array[c].distance_sq)
                /\ array[c].time_sq = QDiv(array[c].distance_sq, QMul(vel, vel))

\* no connection names the first segment as its dependent (segment2)
FirstSegmentAnchored ==
    \A k \in DOMAIN call.connections : call.connections[k].segment2 # 1

\* C13 amended: the same, for a first segment that no connection names as
\* segment2 (such a connection replaces ref_coords[0] at line 182).
C13_CentredWhenAnchored == FirstSegmentAnchored => C13_CentredOnHypocenter

\* the whole field returned for three connected segments
C13_Witness ==
    /\ fpc = "returned"
    /\ NSegments = 3
    /\ call.segments[1].hypocenter = <<>>
    /\ field[1][1][1][HypocenterCell].depth = QI(10)
    /\ field[1][1][1][<<0, 0, 0, 0>>].distance_sq # <<0, 1>>

----------------------------------------------------------------------------
(* The placeholder lists of point_sources_param                            *)

\* C14: every placeholder slot is overwritten before it is read: the
\* connection loop finds ref_coords[segment1 - 1] set (line 169), the field
\* loop finds ref_coords[i] and hypocenters[i] set (lines 198, 205), and the
\* call never ends in the ValueError of unpacking a placeholder.
C14_SlotsSetBeforeRead ==
    /\ fpc = "connections" => ref_coords[call.connections[idx].segment1] # <<>>
    /\ fpc = "fields" => (ref_coords[idx] # <<>> /\ hypocenters[idx] # <<>>)
    /\ fpc # "value_error"

----------------------------------------------------------------------------
(* Properties of __source_layer                                            *)

\* boundary[j]: the sum of the first j thicknesses
RECURSIVE SumThick(_, _, _)
SumThick(thick, from, to) ==
    IF from > to THEN <<0, 1>> ELSE QAdd(thick[from], SumThick(thick, from + 1, to))
Boundary(thick, j) == SumThick(thick, 1, j)

\* the layers j with boundary[j] <= depth <= boundary[j + 1]
LayersAround(thick, depth) ==
    {j \in 0..(Len(thick) - 1) :
        QLe(Boundary(thick, j), depth) /\ QLe(depth, Boundary(thick, j + 1))}

LogEntries == {layer_log[k] : k \in DOMAIN layer_log}

\* C15: __source_layer returns the smallest j with
\* boundary[j] <= depth <= boundary[j + 1]; for 0 <= depth <= sum(thick) the
\* result is an index in 0..n_layers-1, and a depth on the interface between
\* two layers is given to the shallower one.
C15_SmallestMatchingLayer ==
    \A e \in LogEntries :
        LET thick == velmodel.thick
            around == LayersAround(thick, e.depth)
        IN  /\ around # {} =>
                /\ e.layer # <<>>
                /\ e.layer[1] \in around
                /\ \A j \in around : e.layer[1] <= j
            /\ (QLe(<<0, 1>>, e.depth) /\ QLe(e.depth, Boundary(thick, Len(thick)))) =>
                /\ e.layer # <<>>
                /\ e.layer[1] \in 0..(Len(thick) - 1)
            /\ \A j \in 1..(Len(thick) - 1) :
                e.depth = Boundary(thick, j) =>
                    (e.layer # <<>> /\ e.layer[1] <= j - 1)

\* a depth on the interface of layers 0 and 1 of the default table
C15_Witness ==
    /\ DefaultModelUsed
    /\ \E e \in LogEntries : e.depth = QI(12) /\ e.layer = <<0>>
    /\ \E e \in LogEntries : e.depth = <<107, 5>> /\ e.layer = <<1>>

\* C16: with a final layer of thickness 0, a depth below the last finite
\* boundary matches no layer: __source_layer returns no index, the call of
\* shear_modulous ends in the error outcome without a result, and the index
\* of the half-space layer is never returned when the layer above it has a
\* positive thickness.
C16_BelowLastBoundary ==
    (spc # "idle" /\ velmodel # <<>>) =>
        LET thick == velmodel.thick
            n_layers == Len(thick)
        IN  thick[n_layers] = <<0, 1>> =>
                /\ \A e \in LogEntries :
                    QLt(Boundary(thick, n_layers), e.depth) => e.layer = <<>>
                /\ (\E e \in LogEntries : e.layer = <<>>) =>
                    (spc = "unbound_error" /\ shear_out = <<>>)
                /\ QLt(<<0, 1>>, thick[n_layers - 1]) =>
                    \A e \in LogEntries : e.layer # <<n_layers - 1>>

\* the error is met in the second segment, after the first was filled
C16_Witness ==
    /\ spc = "unbound_error"
    /\ shear_seg = 2
    /\ shear[1] # <<>>
    /\ layer_log[Len(layer_log)].depth = QI(700)
    /\ shear_out = <<>>

----------------------------------------------------------------------------
(* The down-dip scan of the hypocenter locator                             *)

\* delta_dip * (j + 0.5) > 1.01 * surface_dist
BeyondSurface(j) ==
    QLt(QMul(<<101, 100>>,
             dist_to_surface(args.tensor_info.depth, args.water_level, plane_info.dip)),
        QMul(subfaults.delta_dip, QAdd(QI(j), <<1, 2>>)))

\* delta_dip * dip_subfaults / 2 > surface_dist
ScanEntered ==
    QLt(dist_to_surface(args.tensor_info.depth, args.water_level, plane_info.dip),
        QDiv(QMul(subfaults.delta_dip, QI(subfaults.dip_subfaults)), QI(2)))

DefaultHypDip == subfaults.dip_subfaults \div 2 + 1

\* C17: hyp_dip is floor(dip_subfaults / 2) + 1 unless the scan is entered;
\* when it is, some scanned j meets delta_dip * (j + 0.5) > 1.01 *
\* surface_dist and hyp_dip is the first such j; hyp_dip never exceeds the
\* default.
C17_FirstRowBeyondSurface ==
    LocateDone =>
        /\ hyp_location.hyp_dip <= DefaultHypDip
        /\ ~ScanEntered => hyp_location.hyp_dip = DefaultHypDip
        /\ ScanEntered =>
            /\ \E j \in 0..(DefaultHypDip - 1) : BeyondSurface(j)
            /\ BeyondSurface(hyp_location.hyp_dip)
            /\ \A k \in 0..(hyp_location.hyp_dip - 1) : ~BeyondSurface(k)

----------------------------------------------------------------------------
(* is_fault_correct as a pre-check of the depth floor                      *)

\* C18: for one segment anchored at the event hypocenter, whenever
\* is_fault_correct returns True, point_sources_param on that segment does
\* not raise the 'above the ground' error and stores no depth below 0.1 km.
C18_PrecheckSound ==
    fault_correct = <<TRUE>> =>
        /\ fpc # "geometry_error"
        /\ fpc = "returned" =>
            \A c \in DOMAIN field[1][1][1] : QLe(<<1, 10>>, field[1][1][1][c].depth)

----------------------------------------------------------------------------
(* The planner against the depth floor of the field generator              *)

\* the depth of the shallowest point source of the returned plan: up-dip
\* distance (hyp_dip - 1) * delta_dip + (ny - 1) * dy from the hypocenter
ShallowestDepth ==
    LET segment == segments_data[1].segments[1]
        subfaults2 == point_sources_def(segments_data[1].rise_time, segment.rupture_vel,
                                        [delta_strike |-> segment.delta_strike,
                                         delta_dip |-> segment.delta_dip])
        ny == CentralPs(subfaults2.dip_ps)
        up_dip == QAdd(QMul(QI(segment.hyp_dip - 1), segment.delta_dip),
                       QMul(QI(ny - 1), subfaults2.dy))
    IN  QSub(args.tensor_info.depth, QMul(up_dip, SinDeg(segment.dip)))

\* C19: for every input of create_finite_fault with water_level = 0, the
\* shallowest point source of the returned plan has depth >= 0.1 km, so
\* point_sources_param on the returned segments and rise_time never raises
\* the 'above the ground' error.
C19_PlanAboveFloor ==
    (segments_data # <<>> /\ args.water_level = <<0, 1>>) =>
        /\ QLe(<<1, 10>>, ShallowestDepth)
        /\ ~InvalidScenario

====
